---- MODULE Spec2Model ----
(***************************************************************************)
(* Model of packages/MacWindowSwitch/scripts/list-windows.py.              *)
(*                                                                         *)
(* A Python str is a sequence of one-character strings, a dict is a        *)
(* function whose DOMAIN is the set of keys that are present, None for an  *)
(* optional str is the empty sequence <<>> of an option (<<s>> is the str  *)
(* s).  stdout is the sequence of the lines written so far.                *)
(***************************************************************************)
EXTENDS Integers, Sequences, FiniteSets, TLC

VARIABLES
    pc,               \* position of the run: import, main, list_windows, loop, exited
    quartzAvailable,  \* environment: does "from Quartz import ..." succeed
    argvApp,          \* environment: the value given to --app (option)
    app_filter,       \* list_windows' parameter
    windows,          \* the list returned by CGWindowListCopyWindowInfo
    idx,              \* position of the for loop in windows
    count,            \* list_windows' counter
    stdout,           \* lines written to standard output
    exitCode,         \* process exit status, -1 while running
    queries,          \* history: number of CGWindowListCopyWindowInfo calls
    osWindows,        \* history: the list as the operating system returned it
    printed           \* history: loop positions whose record reached line 55

vars == <<pc, quartzAvailable, argvApp, app_filter, windows, idx, count,
          stdout, exitCode, queries, osWindows, printed>>

-----------------------------------------------------------------------------
(* Bounds *)

MaxWindows == 2

-----------------------------------------------------------------------------
(* Program constants *)

AppWidth == 25
TitleWidth == 40
WidWidth == 8
PidWidth == 7
TitleLimit == 40
TitleKeep == 37
SeparatorWidth == 85

-----------------------------------------------------------------------------
(* Python str operations *)

UpperChars == <<"A","B","C","D","E","F","G","H","I","J","K","L","M",
                "N","O","P","Q","R","S","T","U","V","W","X","Y","Z">>
LowerChars == <<"a","b","c","d","e","f","g","h","i","j","k","l","m",
                "n","o","p","q","r","s","t","u","v","w","x","y","z">>
Digits == <<"0","1","2","3","4","5","6","7","8","9">>

LowerChar(c) ==
    IF \E k \in 1..Len(UpperChars) : UpperChars[k] = c
    THEN LowerChars[CHOOSE k \in 1..Len(UpperChars) : UpperChars[k] = c]
    ELSE c

\* str.lower()
Lower(s) == [k \in 1..Len(s) |-> LowerChar(s[k])]

\* sub in s
Contains(sub, s) ==
    \E k \in 0..(Len(s) - Len(sub)) : SubSeq(s, k + 1, k + Len(sub)) = sub

\* c * n
Repeat(c, n) == [k \in 1..n |-> c]

\* format spec <Ns: left-justify in a field of at least w characters
LJust(s, w) == IF Len(s) >= w THEN s ELSE s \o Repeat(" ", w - Len(s))

\* format spec >Ns / Nd: right-justify in a field of at least w characters
RJust(s, w) == IF Len(s) >= w THEN s ELSE Repeat(" ", w - Len(s)) \o s

RECURSIVE NatToStr(_)
NatToStr(n) ==
    IF n < 10 THEN <<Digits[n + 1]>>
    ELSE NatToStr(n \div 10) \o <<Digits[(n % 10) + 1]>>

\* decimal presentation of an int (format type d)
IntToStr(n) == IF n < 0 THEN <<"-">> \o NatToStr(0 - n) ELSE NatToStr(n)

\* dict.get(key, default)
Get(w, key, default) == IF key \in DOMAIN w THEN w[key] ELSE default

-----------------------------------------------------------------------------
(* Literals of the script *)

Untitled ==
    <<"U","n","t","i","t","l","e","d">>
Ellipsis ==
    <<".",".",".">>
AppHdr ==
    <<"A","p","p">>
TitleHdr ==
    <<"W","i","n","d","o","w"," ","T","i","t","l","e">>
IdHdr ==
    <<"I","D">>
PidHdr ==
    <<"P","I","D">>
TotalPrefix ==
    <<"T","o","t","a","l"," ","w","i","n","d","o","w","s",":"," ">>
ExampleLine1 ==
    <<"E","x","a","m","p","l","e"," ","u","s","a","g","e",":">>
ExampleLine2 ==
    <<" "," ","m","a","c","-","w","i","n","d","o","w","-","s","w","i",
      "t","c","h"," ","a","c","t","i","v","a","t","e"," ","-","-","w",
      "i","n","d","o","w","-","i","d"," ","<","I","D",">"," ","-","-",
      "p","i","d"," ","<","P","I","D",">">>
ErrorLine1 ==
    <<"E","r","r","o","r",":"," ","Q","u","a","r","t","z"," ","m","o",
      "d","u","l","e"," ","n","o","t"," ","a","v","a","i","l","a","b",
      "l","e",".">>
ErrorLine2 ==
    <<"T","h","i","s"," ","s","c","r","i","p","t"," ","r","e","q","u",
      "i","r","e","s"," ","P","y","O","b","j","C",":"," ","p","i","p",
      "3"," ","i","n","s","t","a","l","l"," ","p","y","o","b","j","c",
      "-","f","r","a","m","e","w","o","r","k","-","Q","u","a","r","t",
      "z">>

-----------------------------------------------------------------------------
(* Inputs: --app values and the window records the operating system returns *)

Safari == <<"S","a","f","a","r","i">>
Chrome == <<"C","h","r","o","m","e">>
Example == <<"E","x","a","m","p","l","e">>

\* a text of n characters, mixed case
MkText(n) == [k \in 1..n |-> IF k % 2 = 1 THEN UpperChars[((k - 1) % 26) + 1]
                                          ELSE LowerChars[((k - 1) % 26) + 1]]

RECURSIVE Pow10(_)
Pow10(n) == IF n = 0 THEN 1 ELSE 10 * Pow10(n - 1)

\* an owner name one character wider than its column, containing "Safari"
LongApp == Safari \o MkText(AppWidth + 1 - Len(Safari))
\* ids one digit wider than their columns
BigWid == Pow10(WidWidth) + 42
BigPid == Pow10(PidWidth) + 1234

\* no --app, --app "", and three names
AppArgs == { <<>>, << <<>> >>, << Lower(Safari) >>, << Chrome >>,
             << <<"A","R","I">> >> }

Base == [kCGWindowOwnerName |-> Safari, kCGWindowName |-> Example,
         kCGWindowNumber |-> 42, kCGWindowOwnerPID |-> 1234]

Without(w, key) == [k \in (DOMAIN w) \ {key} |-> w[k]]

WindowPool ==
    { Base,
      Without(Base, "kCGWindowOwnerName"),
      [Base EXCEPT !.kCGWindowOwnerName = <<>>],
      [Base EXCEPT !.kCGWindowOwnerName = LongApp],
      [Base EXCEPT !.kCGWindowOwnerName = Chrome],
      Without(Base, "kCGWindowName"),
      [Base EXCEPT !.kCGWindowName = <<>>],
      [Base EXCEPT !.kCGWindowName = MkText(TitleLimit)],
      [Base EXCEPT !.kCGWindowName = MkText(TitleLimit + 1)],
      [Base EXCEPT !.kCGWindowName = MkText(TitleLimit + 10)],
      Without(Base, "kCGWindowNumber"),
      [Base EXCEPT !.kCGWindowNumber = 0],
      [Base EXCEPT !.kCGWindowNumber = BigWid],
      Without(Base, "kCGWindowOwnerPID"),
      [Base EXCEPT !.kCGWindowOwnerPID = BigPid],
      [kCGWindowOwnerName |-> <<"X">>, kCGWindowNumber |-> 0],
      Without(Without(Base, "kCGWindowName"), "kCGWindowOwnerPID"),
      <<>> }

WindowLists ==
    UNION { [1..n -> WindowPool] : n \in 0..MaxWindows }

-----------------------------------------------------------------------------
(* list_windows, expression by expression *)

\* line 30: the list is iterated as returned
ReversedOrder(ws) == [k \in 1..Len(ws) |-> ws[Len(ws) + 1 - k]]
Retrieved(ws) == ws

\* lines 38-41
AppOf(w) == Get(w, "kCGWindowOwnerName", <<>>)
TitleOfEmptyDefault(w) == Get(w, "kCGWindowName", <<>>)
TitleOf(w) == Get(w, "kCGWindowName", Untitled)
WidOf(w) == Get(w, "kCGWindowNumber", 0)
PidOf(w) == Get(w, "kCGWindowOwnerPID", 0)

\* truth value of an optional str: None and '' are false
Truthy(opt) == opt # <<>> /\ opt[1] # <<>>

\* line 44
FilteredOutCaseSensitive(f, app) == Truthy(f) /\ ~Contains(f[1], app)
FilteredOut(f, app) == Truthy(f) /\ ~Contains(Lower(f[1]), Lower(app))

\* line 48
InvalidBoth(app, wid) == app = <<>> /\ wid = 0
Invalid(app, wid) == app = <<>> \/ wid = 0

\* lines 52-53
TruncateAtLimit(title) ==
    IF Len(title) >= TitleLimit
    THEN SubSeq(title, 1, TitleKeep) \o Ellipsis
    ELSE title
Truncate(title) ==
    IF Len(title) > TitleLimit
    THEN SubSeq(title, 1, TitleKeep) \o Ellipsis
    ELSE title

\* line 55
FormatRowWidePid(app, title, wid, pid) ==
    LJust(app, AppWidth) \o <<" ">>
    \o LJust(title, TitleWidth) \o <<" ">>
    \o RJust(IntToStr(wid), WidWidth) \o <<" ">>
    \o RJust(IntToStr(pid), WidWidth)
FormatRow(app, title, wid, pid) ==
    LJust(app, AppWidth) \o <<" ">>
    \o LJust(title, TitleWidth) \o <<" ">>
    \o RJust(IntToStr(wid), WidWidth) \o <<" ">>
    \o RJust(IntToStr(pid), PidWidth)

\* line 56
CountTwice(c) == c + 2
NextCount(c) == c + 1

\* line 33
HeaderLine ==
    LJust(AppHdr, AppWidth) \o <<" ">>
    \o LJust(TitleHdr, TitleWidth) \o <<" ">>
    \o RJust(IdHdr, WidWidth) \o <<" ">>
    \o RJust(PidHdr, PidWidth)

\* line 34
SeparatorLine == Repeat("-", SeparatorWidth)

\* line 58: a blank line, then the total
TotalLines(c) == << <<>>, TotalPrefix \o IntToStr(c) >>

\* lines 61-63: a blank line, then the two lines of the example
ExampleLinesAlways(c) == << <<>>, ExampleLine1, ExampleLine2 >>
ExampleLines(c) ==
    IF c > 0 THEN << <<>>, ExampleLine1, ExampleLine2 >> ELSE <<>>

-----------------------------------------------------------------------------
(* The run *)

Init ==
    /\ pc = "import"
    /\ quartzAvailable \in BOOLEAN
    /\ argvApp \in AppArgs
    /\ app_filter = <<>>
    /\ windows = <<>>
    /\ idx = 1
    /\ count = 0
    /\ stdout = <<>>
    /\ exitCode = -1
    /\ queries = 0
    /\ osWindows = <<>>
    /\ printed = <<>>

\* lines 16-21: the import succeeds
ImportQuartz ==
    /\ pc = "import"
    /\ quartzAvailable
    /\ pc' = "main"
    /\ UNCHANGED <<quartzAvailable, argvApp, app_filter, windows, idx, count,
                   stdout, exitCode, queries, osWindows, printed>>

\* lines 22-25: ImportError, two messages and sys.exit(1)
ImportErrorContinues ==
    /\ pc = "import"
    /\ ~quartzAvailable
    /\ stdout' = stdout \o <<ErrorLine1, ErrorLine2>>
    /\ pc' = "main"
    /\ UNCHANGED <<quartzAvailable, argvApp, app_filter, windows, idx, count,
                   exitCode, queries, osWindows, printed>>
ImportError ==
    /\ pc = "import"
    /\ ~quartzAvailable
    /\ stdout' = stdout \o <<ErrorLine1, ErrorLine2>>
    /\ exitCode' = 1
    /\ pc' = "exited"
    /\ UNCHANGED <<quartzAvailable, argvApp, app_filter, windows, idx, count,
                   queries, osWindows, printed>>

\* lines 66-77: main parses the arguments and calls list_windows(args.app)
Main ==
    /\ pc = "main"
    /\ app_filter' = argvApp
    /\ pc' = "list_windows"
    /\ UNCHANGED <<quartzAvailable, argvApp, windows, idx, count, stdout,
                   exitCode, queries, osWindows, printed>>

\* lines 30-36: the query, the header, the separator, count = 0
QueryAndHeader ==
    /\ pc = "list_windows"
    /\ \E ws \in WindowLists :
          /\ osWindows' = ws
          /\ windows' = Retrieved(ws)
    /\ queries' = queries + 1
    /\ stdout' = stdout \o <<HeaderLine, SeparatorLine>>
    /\ count' = 0
    /\ idx' = 1
    /\ pc' = "loop"
    /\ UNCHANGED <<quartzAvailable, argvApp, app_filter, exitCode, printed>>

\* lines 37-56: one iteration of the for loop
LoopBody ==
    /\ pc = "loop"
    /\ idx <= Len(windows)
    /\ LET w == windows[idx]
           app == AppOf(w)
           title == TitleOf(w)
           wid == WidOf(w)
           pid == PidOf(w)
       IN  IF FilteredOut(app_filter, app) \/ Invalid(app, wid)
           THEN UNCHANGED <<stdout, count, printed>>
           ELSE /\ stdout' = Append(stdout,
                                    FormatRow(app, Truncate(title), wid, pid))
                /\ count' = NextCount(count)
                /\ printed' = Append(printed, idx)
    /\ idx' = idx + 1
    /\ UNCHANGED <<pc, quartzAvailable, argvApp, app_filter, windows,
                   exitCode, queries, osWindows>>

\* lines 58-63 and the return through main: total, example, exit status 0
FinishZeroIsError ==
    /\ pc = "loop"
    /\ idx > Len(windows)
    /\ IF count = 0
       THEN /\ exitCode' = 1
            /\ UNCHANGED stdout
       ELSE /\ exitCode' = 0
            /\ stdout' = stdout \o TotalLines(count) \o ExampleLines(count)
    /\ pc' = "exited"
    /\ UNCHANGED <<quartzAvailable, argvApp, app_filter, windows, idx, count,
                   queries, osWindows, printed>>
Finish ==
    /\ pc = "loop"
    /\ idx > Len(windows)
    /\ stdout' = stdout \o TotalLines(count) \o ExampleLines(count)
    /\ exitCode' = 0
    /\ pc' = "exited"
    /\ UNCHANGED <<quartzAvailable, argvApp, app_filter, windows, idx, count,
                   queries, osWindows, printed>>

Next ==
    \/ ImportQuartz
    \/ ImportError
    \/ Main
    \/ QueryAndHeader
    \/ LoopBody
    \/ Finish

Spec == Init /\ [][Next]_vars

\* the interpreter always takes the next step of a single-threaded run
FairSpec == Spec /\ WF_vars(Next)

-----------------------------------------------------------------------------
(* Vocabulary of the properties *)

Has(w, key) == key \in DOMAIN w
Max(a, b) == IF a >= b THEN a ELSE b
Spaces(n) == [k \in 1..n |-> " "]
StartsWith(line, prefix) ==
    Len(line) >= Len(prefix) /\ SubSeq(line, 1, Len(prefix)) = prefix
EndsWith(line, suffix) ==
    /\ Len(line) >= Len(suffix)
    /\ SubSeq(line, Len(line) - Len(suffix) + 1, Len(line)) = suffix

\* the fields of a record as the operating system supplied them
OwnerName(w) == IF Has(w, "kCGWindowOwnerName") THEN w.kCGWindowOwnerName ELSE <<>>
WindowId(w) == IF Has(w, "kCGWindowNumber") THEN w.kCGWindowNumber ELSE 0
ProcessId(w) == IF Has(w, "kCGWindowOwnerPID") THEN w.kCGWindowOwnerPID ELSE 0
RawTitle(w) == IF Has(w, "kCGWindowName") THEN w.kCGWindowName ELSE Untitled

\* the rows are the lines after the header and the separator
NumRows == Len(printed)
RowLine(k) == stdout[2 + k]
RowRecord(k) == osWindows[printed[k]]
PrintedSet == { printed[k] : k \in 1..Len(printed) }

\* the 40 characters of a row that follow the application column
TitleField(k) ==
    LET off == Max(25, Len(OwnerName(RowRecord(k)))) + 1
    IN  SubSeq(RowLine(k), off + 1, off + 40)

\* the filter given on the command line lets the record through
MatchesFilter(w) ==
    argvApp = <<>> \/ Contains(Lower(argvApp[1]), Lower(OwnerName(w)))
Usable(w) == OwnerName(w) # <<>> /\ WindowId(w) # 0

ExitedNormally == pc = "exited" /\ exitCode = 0

-----------------------------------------------------------------------------
\* C1: every printed row comes from a record whose owner application name is
\* non-empty and whose window id is not 0, with or without a filter; a record
\* with window id 0 is never printed.
C1_RowsAreUsable ==
    /\ \A k \in 1..NumRows :
          /\ Has(RowRecord(k), "kCGWindowOwnerName")
          /\ RowRecord(k).kCGWindowOwnerName # <<>>
          /\ Has(RowRecord(k), "kCGWindowNumber")
          /\ RowRecord(k).kCGWindowNumber # 0
          /\ StartsWith(RowLine(k), RowRecord(k).kCGWindowOwnerName)
    /\ \A i \in 1..Len(osWindows) :
          WindowId(osWindows[i]) = 0 => i \notin PrintedSet

C1_Witness ==
    /\ ExitedNormally
    /\ argvApp = <<>>
    /\ Len(osWindows) = 2
    /\ OwnerName(osWindows[1]) # <<>> /\ WindowId(osWindows[1]) = 0
    /\ printed = <<2>>

\* C2: the counter equals the number of rows printed so far at every
\* iteration of the loop, and the number in the "Total windows" line is the
\* number of rows between the separator and the blank line before the total.
C2_TotalIsRowCount ==
    /\ pc = "loop" => count = Len(stdout) - 2
    /\ count = NumRows
    /\ ExitedNormally =>
          LET blank == CHOOSE j \in 1..Len(stdout) :
                          /\ stdout[j] = <<>>
                          /\ \A m \in 1..(j - 1) : stdout[m] # <<>>
          IN  stdout[blank + 1] = TotalPrefix \o NatToStr(blank - 3)

C2_Witness ==
    /\ ExitedNormally
    /\ Len(osWindows) = 2
    /\ count = 1
    /\ stdout[5] = TotalPrefix \o <<"1">>

\* C3: when --app is given, the owner name of every printed row contains it
\* as a case-insensitive substring, and no record whose owner name does not
\* contain it is printed; a difference of case alone excludes nothing: a
\* usable record whose owner name contains it in any case is printed
\* ("safari" matches "Safari").
C3_FilterIsCaseInsensitiveSubstring ==
    argvApp # <<>> =>
       /\ \A k \in 1..NumRows :
             Contains(Lower(argvApp[1]), Lower(OwnerName(RowRecord(k))))
       /\ \A i \in 1..Len(osWindows) :
             ~Contains(Lower(argvApp[1]), Lower(OwnerName(osWindows[i])))
                => i \notin PrintedSet
       /\ \A i \in 1..(idx - 1) :
             (Usable(osWindows[i])
              /\ Contains(Lower(argvApp[1]), Lower(OwnerName(osWindows[i]))))
                => i \in PrintedSet

C3_Witness ==
    /\ ExitedNormally
    /\ argvApp = << Lower(Safari) >>
    /\ Len(osWindows) = 2
    /\ OwnerName(osWindows[1]) = Chrome
    /\ OwnerName(osWindows[2]) = Safari
    /\ printed = <<2>>

\* C4: a raw title longer than 40 characters is printed as its first 37
\* characters followed by "...", 40 characters in all; a raw title of 40
\* characters or fewer is printed whole, padded with spaces to 40.
C4_TitleTruncation ==
    \A k \in 1..NumRows :
       LET raw == RawTitle(RowRecord(k))
       IN  /\ Len(TitleField(k)) = 40
           /\ Len(raw) > 40 => TitleField(k) = SubSeq(raw, 1, 37) \o <<".", ".", ".">>
           /\ Len(raw) <= 40 => TitleField(k) = raw \o Spaces(40 - Len(raw))

C4_Witness ==
    /\ ExitedNormally
    /\ printed = <<1, 2>>
    /\ Len(RawTitle(osWindows[1])) = 50
    /\ Len(RawTitle(osWindows[2])) = 40

\* C5: the example-usage block is printed if and only if at least one row
\* was printed; it is printed once, after the "Total windows" line, and never
\* before the run has finished the loop.
C5_ExampleIffRows ==
    LET ex == { j \in 1..Len(stdout) : stdout[j] = ExampleLine1 }
        ex2 == { j \in 1..Len(stdout) : stdout[j] = ExampleLine2 }
        tot == { j \in 1..Len(stdout) : StartsWith(stdout[j], TotalPrefix) }
    IN  /\ pc # "exited" => ex = {} /\ ex2 = {}
        /\ ExitedNormally /\ NumRows = 0 => ex = {} /\ ex2 = {}
        /\ ExitedNormally /\ NumRows > 0 =>
              /\ Cardinality(ex) = 1 /\ Cardinality(ex2) = 1
              /\ Cardinality(tot) = 1
              /\ \A j \in ex : \A m \in tot : m < j /\ j + 1 \in ex2

C5_Witness ==
    /\ ExitedNormally
    /\ NumRows = 2
    /\ stdout[Len(stdout)] = ExampleLine2
    /\ stdout[Len(stdout) - 1] = ExampleLine1

\* C6: when the Quartz binding cannot be imported the run prints a message
\* and exits with status 1; no query is issued and no header, separator, row
\* or total line is printed.
C6_NoBindingFailsFast ==
    ~quartzAvailable =>
       /\ pc \in {"import", "exited"}
       /\ queries = 0
       /\ printed = <<>>
       /\ \A j \in 1..Len(stdout) :
             /\ stdout[j] # HeaderLine
             /\ stdout[j] # SeparatorLine
             /\ ~StartsWith(stdout[j], TotalPrefix)
       /\ pc = "exited" => exitCode = 1 /\ stdout # <<>>

C6_Witness ==
    /\ ~quartzAvailable
    /\ pc = "exited"
    /\ exitCode = 1
    /\ stdout = <<ErrorLine1, ErrorLine2>>

\* C7: a missing field never makes the run fail.  A record without a title
\* that is usable and passes the filter is printed with the title
\* "Untitled"; a record without an owner name or without a window id is not
\* printed; a usable record without a process id that passes the filter is
\* printed with pid 0.
C7_MissingFieldsDefault ==
    /\ quartzAvailable /\ pc = "exited" => exitCode = 0 /\ idx = Len(osWindows) + 1
    /\ \A i \in 1..(idx - 1) :
          LET w == osWindows[i]
          IN  /\ ~Has(w, "kCGWindowOwnerName") \/ ~Has(w, "kCGWindowNumber")
                    => i \notin PrintedSet
              /\ Usable(w) /\ MatchesFilter(w)
                 /\ (~Has(w, "kCGWindowName") \/ ~Has(w, "kCGWindowOwnerPID"))
                    => i \in PrintedSet
    /\ \A k \in 1..NumRows :
          /\ ~Has(RowRecord(k), "kCGWindowName")
                => TitleField(k) = Untitled \o Spaces(40 - Len(Untitled))
          /\ ~Has(RowRecord(k), "kCGWindowOwnerPID")
                => EndsWith(RowLine(k), <<" ">> \o Spaces(6) \o <<"0">>)

C7_Witness ==
    /\ ExitedNormally
    /\ Len(osWindows) = 2
    /\ ~Has(osWindows[1], "kCGWindowName")
    /\ ~Has(osWindows[1], "kCGWindowOwnerPID")
    /\ ~Has(osWindows[2], "kCGWindowOwnerName")
    /\ printed = <<1>>

\* the report of a normal run: header, separator, one line per printed
\* record, a blank line and the total, in that order
ReportInOrder ==
    /\ Len(stdout) >= NumRows + 4
    /\ StartsWith(stdout[1], <<"A", "p", "p", " ">>)
    /\ stdout[2] # <<>> /\ \A c \in 1..Len(stdout[2]) : stdout[2][c] = "-"
    /\ \A k \in 1..NumRows : StartsWith(RowLine(k), OwnerName(RowRecord(k)))
    /\ stdout[NumRows + 3] = <<>>
    /\ stdout[NumRows + 4] = TotalPrefix \o NatToStr(NumRows)
    /\ NumRows = 0 => Len(stdout) = 4

\* C8: when the binding is available, every run ends with exit status 0
\* after printing the header, the separator, the rows and the total line in
\* that order; a run without any matching window ends the same way, with
\* "Total windows: 0".
C8_TerminatesNormally ==
    /\ (pc = "import" /\ quartzAvailable) ~> (ExitedNormally /\ ReportInOrder)
    /\ [](quartzAvailable /\ pc = "exited" => exitCode = 0 /\ ReportInOrder)

C8_Witness ==
    /\ ExitedNormally
    /\ Len(osWindows) = 2
    /\ NumRows = 0
    /\ stdout = <<HeaderLine, SeparatorLine>> \o << <<>>, TotalPrefix \o <<"0">> >>

\* C9 as stated: every row is 83 characters wide, whatever the length of the
\* owner name and the magnitude of the ids.
C9_EveryRowIs83Wide ==
    \A k \in 1..NumRows : Len(RowLine(k)) = 83

\* C9 amended: the widths are minimum widths.  The application name is
\* left-justified in at least 25 characters, the title takes exactly 40, the
\* window id is right-justified in at least 8 and the process id in at least
\* 7; a row is 83 characters wide when the name has at most 25 characters,
\* the window id at most 8 and the process id at most 7, and wider by the
\* excess otherwise.
C9_RowWidthIsMinimumWidths ==
    \A k \in 1..NumRows :
       LET w == RowRecord(k)
           a == Len(OwnerName(w))
           i == Len(IntToStr(WindowId(w)))
           p == Len(IntToStr(ProcessId(w)))
       IN  /\ Len(RowLine(k)) = Max(25, a) + 1 + 40 + 1 + Max(8, i) + 1 + Max(7, p)
           /\ a <= 25 /\ i <= 8 /\ p <= 7 => Len(RowLine(k)) = 83
           /\ a > 25 \/ i > 8 \/ p > 7 => Len(RowLine(k)) > 83
           /\ StartsWith(RowLine(k), OwnerName(w) \o Spaces(25 - a) \o <<" ">>)
           /\ EndsWith(RowLine(k), <<" ">> \o Spaces(8 - i) \o IntToStr(WindowId(w))
                                   \o <<" ">> \o Spaces(7 - p) \o IntToStr(ProcessId(w)))

C9_Witness ==
    /\ ExitedNormally
    /\ printed = <<1, 2>>
    /\ Len(OwnerName(osWindows[1])) > 25
    /\ Len(RowLine(1)) = 84
    /\ Len(RowLine(2)) = 83

\* C10: the printed rows are the records that pass the filter and are
\* usable, each once and in the order the operating system returned them;
\* the list is queried once and is never modified.
C10_RowsAreThePassingSubsequence ==
    /\ queries <= 1
    /\ pc \in {"loop", "exited"} /\ quartzAvailable => queries = 1
    /\ windows = osWindows
    /\ \A k \in 1..(NumRows - 1) : printed[k] < printed[k + 1]
    /\ PrintedSet = { i \in 1..(idx - 1) :
                         MatchesFilter(osWindows[i]) /\ Usable(osWindows[i]) }
    /\ pc = "loop" => Len(stdout) = 2 + NumRows
    /\ \A k \in 1..NumRows :
          /\ StartsWith(RowLine(k), OwnerName(RowRecord(k)))
          /\ EndsWith(RowLine(k), IntToStr(ProcessId(RowRecord(k))))

C10_Witness ==
    /\ ExitedNormally
    /\ argvApp = << <<"A", "R", "I">> >>
    /\ printed = <<1, 2>>
    /\ osWindows[1] # osWindows[2]
    /\ ProcessId(osWindows[1]) # ProcessId(osWindows[2])

====
